---- MODULE Spec2Model ----
(***************************************************************************)
(* Model of cot_monitor.py: the normalizer (calculate_net_positions), the  *)
(* signal detector (detect_signals) and the asset loop of main.            *)
(*                                                                         *)
(* Quantities (contract counts, net positions) are fixed-point integers    *)
(* counting 1/200ths, so that one integer scale holds both the inputs,     *)
(* which are drawn from multiples of 25 (eighths: values a binary float    *)
(* holds exactly, so float arithmetic on them is exact), and the results   *)
(* of round(x, 2), which are multiples of 2 (hundredths).                  *)
(***************************************************************************)
EXTENDS Integers, Sequences, FiniteSets, TLC

VARIABLES
    raw,              \* calculate_net_positions: the raw record list `data`
    processed,        \* calculate_net_positions: its outcome
    data,             \* detect_signals: the Series `data`
    nruns,            \* number of runs the environment used to build `data`
    divergence_weeks, \* detect_signals: parameter
    extreme_weeks,    \* detect_signals: parameter
    signals,          \* detect_signals: its outcome
    pc,               \* position of the function-level specifications
    asset_idx,        \* main: position of the loop over config['assets']
    fetched,          \* main: what fetch_cot_data returned for each asset so far
    results,          \* main: `results`
    active_signals,   \* main: `active_signals`
    report,           \* main: `report`
    mpc               \* main: position of main

vars == <<raw, processed, data, nruns, divergence_weeks, extreme_weeks,
          signals, pc, asset_idx, fetched, results, active_signals, report, mpc>>

normVars == <<raw, processed>>
detectVars == <<data, nruns, divergence_weeks, extreme_weeks, signals>>
mainVars == <<asset_idx, fetched, results, active_signals, report, mpc>>

----------------------------------------------------------------------------
(* Bounds of the model *)

MaxRuns == 4      \* runs of equal records the environment builds a Series from
MaxLen == 157     \* longest Series
MaxRaw == 3       \* longest raw list handed to calculate_net_positions
NumAssets == 3    \* entries of config['assets']

(* Program constants *)

DefaultDivergenceWeeks == 52
DefaultExtremeWeeks == 156
HalfWindow == 26
FullWindow == 52

----------------------------------------------------------------------------
(* Python values and outcomes *)

None == [kind |-> "none"]
Return(v) == [kind |-> "return", value |-> v]
Raise(e) == [kind |-> "raise", exc |-> e]

IMin(a, b) == IF a < b THEN a ELSE b
IMax(a, b) == IF a > b THEN a ELSE b

Range(s) == {s[i] : i \in 1..Len(s)}

\* min() / max() of a non-empty list
SeqMin(s) == CHOOSE m \in Range(s) : \A x \in Range(s) : m <= x
SeqMax(s) == CHOOSE m \in Range(s) : \A x \in Range(s) : m >= x

\* A slice bound as Python normalises it: negative counts from the end,
\* then clamped to 0..n.
SliceIndex(i, n) == IF i < 0 THEN IMax(i + n, 0) ELSE IMin(i, n)

\* s[lo:hi] (0-based, hi exclusive)
PySlice(s, lo, hi) ==
    LET a == SliceIndex(lo, Len(s))
        b == SliceIndex(hi, Len(s))
    IN  IF a < b THEN SubSeq(s, a + 1, b) ELSE <<>>

\* round(x, 2) of an exactly represented x: to the nearest hundredth, a tie
\* going to the even hundredth.
Round2(x) ==
    LET q == x \div 2
    IN  IF x % 2 = 0 THEN x
        ELSE IF q % 2 = 0 THEN 2 * q ELSE 2 * (q + 1)

----------------------------------------------------------------------------
(* calculate_net_positions *)

\* A field of a raw record: missing key, JSON null, non-numeric text, or
\* text that float() parses to val.
Absent == [tag |-> "absent", val |-> 0]
Null == [tag |-> "null", val |-> 0]
Text == [tag |-> "text", val |-> 0]
Num(v) == [tag |-> "num", val |-> v]
Str(d) == [tag |-> "str", val |-> d]

RawRecord(date, ll, ls, rl, rs) ==
    [report_date_as_yyyy_mm_dd |-> date,
     lev_money_positions_long |-> ll,
     lev_money_positions_short |-> ls,
     nonrept_positions_long_all |-> rl,
     nonrept_positions_short_all |-> rs]

\* float(record.get(key, 0))
PyFloat(field) ==
    CASE field.tag = "absent" -> Return(0)
      [] field.tag = "num" -> Return(field.val)
      [] field.tag = "null" -> Raise("TypeError")
      [] OTHER -> Raise("ValueError")

\* record['report_date_as_yyyy_mm_dd']
DateOf(record) ==
    IF record.report_date_as_yyyy_mm_dd.tag = "absent"
    THEN Raise("KeyError")
    ELSE Return(record.report_date_as_yyyy_mm_dd.val)

\* the dict appended to `processed`
PositionRecord(date, hf_long, hf_short, retail_long, retail_short) ==
    [date |-> date,
     hf_net |-> hf_long - hf_short,
     retail_net |-> retail_long - retail_short,
     hf_long |-> hf_long,
     hf_short |-> hf_short]

\* The body of the try block for one record: the four float() calls in
\* order, then the date lookup; the first exception raised ends it.
TryRecord(record) ==
    LET hl == PyFloat(record.lev_money_positions_long)
        hs == PyFloat(record.lev_money_positions_short)
        rl == PyFloat(record.nonrept_positions_long_all)
        rs == PyFloat(record.nonrept_positions_short_all)
        dt == DateOf(record)
    IN  IF hl.kind = "raise" THEN hl
        ELSE IF hs.kind = "raise" THEN hs
        ELSE IF rl.kind = "raise" THEN rl
        ELSE IF rs.kind = "raise" THEN rs
        ELSE IF dt.kind = "raise" THEN dt
        ELSE Return(PositionRecord(dt.value, hl.value, hs.value,
                                   rl.value, rs.value))

\* A mutant of NormalizeRecord: a record without the date is kept, dated 0.
NormalizeRecordKeepUndated(record) ==
    LET t == TryRecord(record)
        u == TryRecord([record EXCEPT !.report_date_as_yyyy_mm_dd = Str(0)])
    IN  IF t.kind = "return" THEN [act |-> "append", rec |-> t.value]
        ELSE IF t.exc = "KeyError" /\ u.kind = "return"
             THEN [act |-> "append", rec |-> u.value]
        ELSE IF t.exc \in {"KeyError", "ValueError"} THEN [act |-> "continue"]
        ELSE [act |-> "raise", exc |-> t.exc]

\* One iteration of the loop: append, or `continue` on KeyError/ValueError;
\* any other exception leaves the function.
NormalizeRecord(record) ==
    LET t == TryRecord(record)
    IN  IF t.kind = "return" THEN [act |-> "append", rec |-> t.value]
        ELSE IF t.exc \in {"KeyError", "ValueError"} THEN [act |-> "continue"]
        ELSE [act |-> "raise", exc |-> t.exc]

RECURSIVE NormalizeFrom(_, _, _)
NormalizeFrom(rawdata, i, acc) ==
    IF i > Len(rawdata) THEN Return(acc)
    ELSE LET step == NormalizeRecord(rawdata[i])
         IN  CASE step.act = "append" ->
                    NormalizeFrom(rawdata, i + 1, Append(acc, step.rec))
               [] step.act = "continue" ->
                    NormalizeFrom(rawdata, i + 1, acc)
               [] OTHER -> Raise(step.exc)

calculate_net_positions(rawdata) == NormalizeFrom(rawdata, 1, <<>>)

----------------------------------------------------------------------------
(* detect_signals *)

\* The status labels, without the emoji the source puts before the first four.
BULLISH_DIVERGENCE == "BULLISH DIVERGENCE"
BEARISH_DIVERGENCE == "BEARISH DIVERGENCE"
EXTREME_BULLISH == "EXTREME BULLISH"
EXTREME_BEARISH == "EXTREME BEARISH"
NEUTRAL == "NEUTRAL"
INSUFFICIENT_DATA == "INSUFFICIENT_DATA"

\* A mutant of InsufficientData: the guard is off by one.
InsufficientDataOffByOne(series) == Len(series) < 1

\* if len(data) < 2
InsufficientData(series) == Len(series) < 2

Sentinel ==
    [current_net |-> 0,
     bullish_divergence |-> FALSE,
     bearish_divergence |-> FALSE,
     extreme_bullish |-> FALSE,
     extreme_bearish |-> FALSE,
     status |-> INSUFFICIENT_DATA]

\* A mutant of Current: the oldest record instead of the newest.
CurrentOldest(series) == series[Len(series)]

\* current = data[0]
Current(series) == series[1]

\* divergence_data = data[:min(divergence_weeks, len(data))]
DivergenceData(series, D) == PySlice(series, 0, IMin(D, Len(series)))

\* A mutant of ExtremeData: the window is not clipped to extreme_weeks.
ExtremeDataWhole(series, E) == series

\* extreme_data = data[:min(extreme_weeks, len(data))]
ExtremeData(series, E) == PySlice(series, 0, IMin(E, Len(series)))

HfNets(series) == [i \in 1..Len(series) |-> series[i].hf_net]

\* divergence_nets[-26:]
RecentNets(nets) == PySlice(nets, -HalfWindow, Len(nets))

\* divergence_nets[-52:-26]
OlderNets(nets) == PySlice(nets, -FullWindow, -HalfWindow)

\* A mutant of StatusOf: the extremes take precedence over the divergences.
StatusOfExtremesFirst(bull, bear, xbull, xbear) ==
    IF xbull THEN EXTREME_BULLISH
    ELSE IF xbear THEN EXTREME_BEARISH
    ELSE IF bull THEN BULLISH_DIVERGENCE
    ELSE IF bear THEN BEARISH_DIVERGENCE
    ELSE NEUTRAL

\* the if/elif chain that determines status
StatusOf(bull, bear, xbull, xbear) ==
    IF bull THEN BULLISH_DIVERGENCE
    ELSE IF bear THEN BEARISH_DIVERGENCE
    ELSE IF xbull THEN EXTREME_BULLISH
    ELSE IF xbear THEN EXTREME_BEARISH
    ELSE NEUTRAL

detect_signals(series, D, E) ==
    IF InsufficientData(series) THEN Return(Sentinel)
    ELSE
    LET current == Current(series)
        current_net == current.hf_net
        divergence_data == DivergenceData(series, D)
        extreme_data == ExtremeData(series, E)
        hf_nets == HfNets(extreme_data)
        divergence_nets == HfNets(divergence_data)
        recent == RecentNets(divergence_nets)
        older == OlderNets(divergence_nets)
    IN  IF hf_nets = <<>> THEN Raise("ValueError")        \* min(hf_nets)
        ELSE IF recent = <<>> THEN Raise("ValueError")    \* min(divergence_nets[-26:])
        ELSE IF older = <<>> THEN Raise("ValueError")     \* min(divergence_nets[-52:-26])
        ELSE
        LET extreme_low == SeqMin(hf_nets)
            extreme_high == SeqMax(hf_nets)
            extreme_bullish == current_net = extreme_low
            extreme_bearish == current_net = extreme_high
            recent_low == SeqMin(recent)
            older_low == SeqMin(older)
            last_net == divergence_nets[Len(divergence_nets)]
            bullish_divergence == recent_low > older_low /\ current_net < last_net
            recent_high == SeqMax(recent)
            older_high == SeqMax(older)
            bearish_divergence == recent_high < older_high /\ current_net > last_net
        IN  Return([current_net |-> Round2(current_net),
                    hf_long |-> Round2(current.hf_long),
                    hf_short |-> Round2(current.hf_short),
                    bullish_divergence |-> bullish_divergence,
                    bearish_divergence |-> bearish_divergence,
                    extreme_bullish |-> extreme_bullish,
                    extreme_bearish |-> extreme_bearish,
                    status |-> StatusOf(bullish_divergence, bearish_divergence,
                                        extreme_bullish, extreme_bearish),
                    date |-> current.date])

----------------------------------------------------------------------------
(* Specification of detect_signals: the environment builds a normalized    *)
(* Series out of runs of equal weekly positions, then the function is      *)
(* applied to it with some window sizes.                                   *)

\* (hf_long, hf_short) of the weeks of a run: nets -1.0, 0.125 and 1.0
HfPairs == {<<0, 200>>, <<225, 200>>, <<200, 0>>}
RunLens == {1, 25, 26, 104}
DivergenceChoices == {DefaultDivergenceWeeks, 30}
ExtremeChoices == {DefaultExtremeWeeks, 3}

MainIdle ==
    /\ asset_idx = 1
    /\ fetched = <<>>
    /\ results = <<>>
    /\ active_signals = <<>>
    /\ report = None
    /\ mpc = "idle"

NormIdle ==
    /\ raw = <<>>
    /\ processed = None

DetectIdle ==
    /\ data = <<>>
    /\ nruns = 0
    /\ divergence_weeks = DefaultDivergenceWeeks
    /\ extreme_weeks = DefaultExtremeWeeks
    /\ signals = None

InitDetect ==
    /\ DetectIdle
    /\ pc = "input"
    /\ NormIdle
    /\ MainIdle

\* The environment appends k weeks, each older than those before, holding
\* the same positions.
ExtendSeries(p, k) ==
    /\ pc = "input"
    /\ nruns < MaxRuns
    /\ Len(data) + k <= MaxLen
    /\ data' = data \o [j \in 1..k |->
                          PositionRecord(Len(data) + j, p[1], p[2], 0, 0)]
    /\ nruns' = nruns + 1
    /\ UNCHANGED <<divergence_weeks, extreme_weeks, signals, pc>>
    /\ UNCHANGED normVars
    /\ UNCHANGED mainVars

Detect(D, E) ==
    /\ pc = "input"
    /\ divergence_weeks' = D
    /\ extreme_weeks' = E
    /\ signals' = detect_signals(data, D, E)
    /\ pc' = "done"
    /\ UNCHANGED <<data, nruns>>
    /\ UNCHANGED normVars
    /\ UNCHANGED mainVars

NextDetect ==
    \/ \E p \in HfPairs, k \in RunLens : ExtendSeries(p, k)
    \/ \E D \in DivergenceChoices, E \in ExtremeChoices : Detect(D, E)

SpecDetect == InitDetect /\ [][NextDetect]_vars

----------------------------------------------------------------------------
(* Specification of calculate_net_positions: the environment hands over a  *)
(* raw list record by record, then the function is applied to it.          *)

RawDates == {Absent, Str(1), Str(2)}
RawLongs == {Absent, Num(225), Text, Null}
RawRecords ==
    {RawRecord(d, l, Num(200), Absent, Num(25)) : d \in RawDates, l \in RawLongs}
    \cup {RawRecord(Str(3), Text, Null, Absent, Absent),
          RawRecord(Str(3), Num(225), Num(200), Null, Text)}

InitNorm ==
    /\ NormIdle
    /\ pc = "raw"
    /\ DetectIdle
    /\ MainIdle

ReceiveRecord(r) ==
    /\ pc = "raw"
    /\ Len(raw) < MaxRaw
    /\ raw' = Append(raw, r)
    /\ UNCHANGED <<processed, pc>>
    /\ UNCHANGED detectVars
    /\ UNCHANGED mainVars

Normalize ==
    /\ pc = "raw"
    /\ processed' = calculate_net_positions(raw)
    /\ pc' = "normalized"
    /\ UNCHANGED raw
    /\ UNCHANGED detectVars
    /\ UNCHANGED mainVars

NextNorm ==
    \/ \E r \in RawRecords : ReceiveRecord(r)
    \/ Normalize

SpecNorm == InitNorm /\ [][NextNorm]_vars

----------------------------------------------------------------------------
(* main: the loop over the configured assets and the report *)

List(s) == [kind |-> "list", value |-> s]
Dict(d) == [kind |-> "dict", value |-> d]

\* `not x` for an Optional list
Falsy(x) == x.kind = "none" \/ x.value = <<>>

\* analyze_asset, given what fetch_cot_data returned for the asset
analyze_asset(asset_code, fetch_result, lookback) ==
    IF Falsy(fetch_result) THEN Return(None)
    ELSE LET norm == calculate_net_positions(fetch_result.value)
         IN  IF norm.kind = "raise" THEN norm
             ELSE IF norm.value = <<>> THEN Return(None)
             ELSE LET sig == detect_signals(norm.value,
                                            lookback.divergence_weeks,
                                            lookback.extreme_weeks)
                  IN  IF sig.kind = "raise" THEN sig
                      ELSE Return(Dict([asset_code |-> asset_code,
                                        asset_name |-> asset_code]
                                       @@ sig.value))

\* A mutant of IsActive: INSUFFICIENT_DATA is not an active signal either.
IsActiveSignalOnly(analysis) ==
    analysis.status \notin {NEUTRAL, INSUFFICIENT_DATA}

\* if analysis['status'] != 'NEUTRAL'
IsActive(analysis) == analysis.status # NEUTRAL

ActiveSignal(analysis) ==
    [asset |-> analysis.asset_code,
     signal |-> analysis.status,
     net_position |-> analysis.current_net]

DefaultLookback ==
    [divergence_weeks |-> DefaultDivergenceWeeks,
     extreme_weeks |-> DefaultExtremeWeeks]

\* k weekly raw records holding the same positions
Weeks(k, l, s) ==
    [j \in 1..k |-> RawRecord(Str(j), Num(l), Num(s), Absent, Absent)]

\* What fetch_cot_data hands back: None (request failed), an empty list, a
\* list whose only record has no date, lists of 1 and 2 weeks, a record with
\* a null quantity, and two lists of 27 weeks.
FetchOutcomes ==
    {None,
     List(<<>>),
     List(<<RawRecord(Absent, Num(225), Num(200), Absent, Absent)>>),
     List(Weeks(1, 225, 200)),
     List(Weeks(2, 225, 200)),
     List(<<RawRecord(Str(1), Null, Num(200), Absent, Absent)>>),
     List(Weeks(1, 225, 200) \o Weeks(25, 0, 200) \o Weeks(1, 200, 0)),
     List(Weeks(1, 0, 200) \o Weeks(26, 200, 0))}

InitMain ==
    /\ asset_idx = 1
    /\ fetched = <<>>
    /\ results = <<>>
    /\ active_signals = <<>>
    /\ report = None
    /\ mpc = "loop"
    /\ pc = "off"
    /\ NormIdle
    /\ DetectIdle

\* One iteration of `for asset_code, asset_config in config['assets'].items()`;
\* an exception of analyze_asset leaves main (the handler under __main__
\* prints the error and exits with 1).
AnalyzeNext(f) ==
    /\ mpc = "loop"
    /\ asset_idx <= NumAssets
    /\ fetched' = Append(fetched, f)
    /\ LET analysis == analyze_asset(asset_idx, f, DefaultLookback)
       IN  IF analysis.kind = "raise"
           THEN /\ mpc' = "fatal"
                /\ UNCHANGED <<asset_idx, results, active_signals>>
           ELSE /\ mpc' = "loop"
                /\ asset_idx' = asset_idx + 1
                /\ IF analysis.value.kind = "dict"
                   THEN /\ results' = Append(results, analysis.value.value)
                        /\ active_signals' =
                             IF IsActive(analysis.value.value)
                             THEN Append(active_signals,
                                         ActiveSignal(analysis.value.value))
                             ELSE active_signals
                   ELSE UNCHANGED <<results, active_signals>>
    /\ UNCHANGED <<report, pc>>
    /\ UNCHANGED normVars
    /\ UNCHANGED detectVars

\* the report payload built after the loop
BuildReport ==
    /\ mpc = "loop"
    /\ asset_idx > NumAssets
    /\ report' = [total_assets |-> Len(results),
                  active_signals |-> Len(active_signals),
                  signals |-> active_signals,
                  all_assets |-> results]
    /\ mpc' = "done"
    /\ UNCHANGED <<asset_idx, fetched, results, active_signals, pc>>
    /\ UNCHANGED normVars
    /\ UNCHANGED detectVars

NextMain ==
    \/ \E f \in FetchOutcomes : AnalyzeNext(f)
    \/ BuildReport

SpecMain == InitMain /\ [][NextMain]_vars

----------------------------------------------------------------------------
(* Properties of detect_signals, checked under SpecDetect *)

Returned == pc = "done" /\ signals.kind = "return"
DefaultWindows ==
    /\ divergence_weeks = DefaultDivergenceWeeks
    /\ extreme_weeks = DefaultExtremeWeeks
NewestNet == data[1].hf_net
NetsOf(lo, hi) == {data[i].hf_net : i \in lo..hi}
SetMin(S) == CHOOSE m \in S : \A x \in S : m <= x
SetMax(S) == CHOOSE m \in S : \A x \in S : m >= x

\* C1: called with the default windows (52, 156) on a Series of any length,
\* detect_signals returns a result and never raises.
C1_NeverRaises ==
    (pc = "done" /\ DefaultWindows) => signals.kind = "return"

\* C2: with the default divergence window, whenever detect_signals returns
\* for a Series of length 2 <= n < 52, bullish_divergence and
\* bearish_divergence are both false, whatever the hf_net values are.
C2_ShortWindowNoDivergence ==
    (Returned /\ divergence_weeks = DefaultDivergenceWeeks
       /\ Len(data) >= 2 /\ Len(data) < DefaultDivergenceWeeks)
    => (~signals.value.bullish_divergence /\ ~signals.value.bearish_divergence)

\* C3: for every Series of length 0 or 1, whatever the two windows are,
\* detect_signals returns status INSUFFICIENT_DATA with all four flags false.
C3_InsufficientData ==
    (pc = "done" /\ Len(data) < 2)
    => /\ signals.kind = "return"
       /\ signals.value.status = INSUFFICIENT_DATA
       /\ ~signals.value.bullish_divergence
       /\ ~signals.value.bearish_divergence
       /\ ~signals.value.extreme_bullish
       /\ ~signals.value.extreme_bearish

C3_Witness ==
    /\ Returned
    /\ Len(data) = 1
    /\ ~DefaultWindows
    /\ signals.value.status = INSUFFICIENT_DATA

\* C4 (as claimed): for every Series of length n >= 1 for which
\* detect_signals returns, current_net of the result equals hf_net of the
\* record at index 0.
C4_CurrentNetIsNewest ==
    (Returned /\ Len(data) >= 1) => signals.value.current_net = NewestNet

\* C4 (amended): for every Series of length n >= 2 for which detect_signals
\* returns, current_net equals hf_net of the record at index 0 rounded to two
\* decimals; for a Series of length 1 the sentinel's current_net is 0.
C4_CurrentNetRounded ==
    Returned =>
      /\ Len(data) >= 2 => signals.value.current_net = Round2(NewestNet)
      /\ Len(data) = 1 => signals.value.current_net = 0

C4_Witness ==
    /\ Returned
    /\ Len(data) >= 2
    /\ NewestNet = 25
    /\ data[Len(data)].hf_net = 200
    /\ signals.value.current_net = 24

\* C5: for a newest-first Series of length >= 52 analysed with D = 52, with
\* recent = window indices 0..25 and older = window indices 26..51:
\* bullish_divergence = (min(recent) > min(older) and current_net < window[51])
\* and bearish_divergence = (max(recent) < max(older) and
\* current_net > window[51]).
C5_DivergenceOfNewestHalf ==
    (Returned /\ divergence_weeks = DefaultDivergenceWeeks
       /\ Len(data) >= DefaultDivergenceWeeks)
    => LET recent == NetsOf(1, 26)
           older == NetsOf(27, 52)
           oldest == data[52].hf_net
       IN  /\ signals.value.bullish_divergence
                = (SetMin(recent) > SetMin(older) /\ NewestNet < oldest)
           /\ signals.value.bearish_divergence
                = (SetMax(recent) < SetMax(older) /\ NewestNet > oldest)

\* C6: in every result for a Series of length >= 2, status is the label the
\* fixed precedence gives for the four returned flags (bullish divergence,
\* bearish divergence, extreme bullish, extreme bearish, else neutral); so
\* status is NEUTRAL iff all four flags are false, and no extreme label is
\* emitted when a divergence flag is true.
C6_StatusByPrecedence ==
    (Returned /\ Len(data) >= 2)
    => LET r == signals.value
           b == r.bullish_divergence
           s == r.bearish_divergence
           xb == r.extreme_bullish
           xs == r.extreme_bearish
       IN  /\ b => r.status = BULLISH_DIVERGENCE
           /\ (~b /\ s) => r.status = BEARISH_DIVERGENCE
           /\ (~b /\ ~s /\ xb) => r.status = EXTREME_BULLISH
           /\ (~b /\ ~s /\ ~xb /\ xs) => r.status = EXTREME_BEARISH
           /\ (r.status = NEUTRAL) = (~b /\ ~s /\ ~xb /\ ~xs)
           /\ (b \/ s) => r.status \notin {EXTREME_BULLISH, EXTREME_BEARISH}

C6_Witness ==
    /\ Returned
    /\ Len(data) >= 2
    /\ signals.value.bullish_divergence
    /\ signals.value.extreme_bullish
    /\ signals.value.status = BULLISH_DIVERGENCE

\* C7: for every Series of length n >= 2 and extreme window E >= 1 for which
\* detect_signals returns, extreme_bullish = (the newest hf_net equals the
\* minimum hf_net over the first min(E, n) records) and extreme_bearish =
\* (it equals the maximum over them).
C7_ExtremesOverClippedWindow ==
    (Returned /\ Len(data) >= 2 /\ extreme_weeks >= 1)
    => LET W == NetsOf(1, IMin(extreme_weeks, Len(data)))
       IN  /\ signals.value.extreme_bullish = (\A x \in W : NewestNet <= x)
           /\ signals.value.extreme_bearish = (\A x \in W : NewestNet >= x)

\* Scenario D: 156 records, the newest being the maximum of all of them.
C7_Witness ==
    /\ Returned
    /\ Len(data) = DefaultExtremeWeeks
    /\ extreme_weeks = DefaultExtremeWeeks
    /\ \A i \in 1..Len(data) : NewestNet >= data[i].hf_net
    /\ \E i \in 1..Len(data) : NewestNet > data[i].hf_net
    /\ signals.value.extreme_bearish
    /\ ~signals.value.extreme_bullish

----------------------------------------------------------------------------
(* Properties of calculate_net_positions, checked under SpecNorm *)

HasDate(r) == r.report_date_as_yyyy_mm_dd.tag # "absent"
Parsable(f) == f.tag \in {"absent", "num"}
AllParsable(r) ==
    /\ Parsable(r.lev_money_positions_long)
    /\ Parsable(r.lev_money_positions_short)
    /\ Parsable(r.nonrept_positions_long_all)
    /\ Parsable(r.nonrept_positions_short_all)
Dated(rawdata) == SelectSeq(rawdata, HasDate)
ZeroIfBad(f) == IF f.tag = "num" THEN f.val ELSE 0

\* C8: on a raw list whose numeric fields are all parsable,
\* calculate_net_positions outputs exactly the records that carry the date
\* field, each once, in their input order.
C8_DatedSubsequence ==
    (pc = "normalized" /\ \A i \in 1..Len(raw) : AllParsable(raw[i]))
    => /\ processed.kind = "return"
       /\ Len(processed.value) = Len(Dated(raw))
       /\ \A i \in 1..Len(Dated(raw)) :
            processed.value[i].date = Dated(raw)[i].report_date_as_yyyy_mm_dd.val

C8_Witness ==
    /\ pc = "normalized"
    /\ Len(raw) = 3
    /\ \A i \in 1..Len(raw) : AllParsable(raw[i])
    /\ HasDate(raw[1]) /\ ~HasDate(raw[2]) /\ HasDate(raw[3])
    /\ raw[1].report_date_as_yyyy_mm_dd # raw[3].report_date_as_yyyy_mm_dd
    /\ processed.kind = "return"
    /\ Len(processed.value) = 2

\* C9: every raw record that has the date field is kept whatever its four
\* numeric fields hold: an absent or unparsable (text, null) field counts as
\* 0, hf_net is hf_long - hf_short of the substituted values, and no
\* exception propagates.
C9_DatedRecordsAlwaysKept ==
    pc = "normalized"
    => /\ processed.kind = "return"
       /\ Len(processed.value) = Len(Dated(raw))
       /\ \A i \in 1..Len(Dated(raw)) :
            LET r == Dated(raw)[i]
            IN  /\ processed.value[i].date = r.report_date_as_yyyy_mm_dd.val
                /\ processed.value[i].hf_net =
                     ZeroIfBad(r.lev_money_positions_long)
                       - ZeroIfBad(r.lev_money_positions_short)

----------------------------------------------------------------------------
(* Properties of main, checked under SpecMain *)

\* the assets for which analyze_asset gave a result: the fetch was non-empty
\* and at least one record survived normalization
Analysed ==
    {i \in 1..Len(fetched) :
        /\ ~Falsy(fetched[i])
        /\ calculate_net_positions(fetched[i].value).kind = "return"
        /\ calculate_net_positions(fetched[i].value).value # <<>>}
Increasing(s) == \A i, j \in 1..Len(s) : i < j => s[i] < s[j]
CodesOf(s) == [i \in 1..Len(s) |-> s[i].asset_code]
AssetsOf(s) == [i \in 1..Len(s) |-> s[i].asset]

\* C10: after main's loop, all_assets holds exactly the assets whose
\* analyze_asset result was not None, in configuration order; signals holds
\* exactly those of them whose status differs from NEUTRAL (an
\* INSUFFICIENT_DATA asset included), in the same order; and active_signals
\* never exceeds total_assets.
C10_ReportContents ==
    mpc = "done"
    => /\ Len(fetched) = NumAssets
       /\ Range(CodesOf(report.all_assets)) = Analysed
       /\ Increasing(CodesOf(report.all_assets))
       /\ Range(AssetsOf(report.signals))
            = {a.asset_code : a \in {b \in Range(report.all_assets) :
                                        b.status # NEUTRAL}}
       /\ Increasing(AssetsOf(report.signals))
       /\ \A i \in 1..Len(report.signals) :
            \E a \in Range(report.all_assets) :
               /\ a.asset_code = report.signals[i].asset
               /\ a.status = report.signals[i].signal
               /\ a.current_net = report.signals[i].net_position
       /\ report.total_assets = Len(report.all_assets)
       /\ report.active_signals = Len(report.signals)
       /\ report.active_signals <= report.total_assets

C10_Witness ==
    /\ mpc = "done"
    /\ \E i \in 1..Len(fetched) : i \notin Analysed
    /\ \E a \in Range(report.all_assets) : a.status = NEUTRAL
    /\ \E g \in Range(report.signals) : g.signal = INSUFFICIENT_DATA
    /\ report.active_signals < report.total_assets

====
